---- MODULE Spec2Model ----
(***************************************************************************)
(* bound.c: copy the images of a source directory whose EXIF GPS position  *)
(* lies inside a bounding rectangle into a destination directory.          *)
(*                                                                         *)
(* Numbers.  The program computes in IEEE-754 single and double precision. *)
(* A double is modelled exactly as a record                                *)
(*     [k, d, s, u]                                                        *)
(*   k = "fin":  the value  d + s/3600 + u * Kappa   (degrees), where      *)
(*               Kappa = 1 / (225 * 2^33); d, s, u are integers            *)
(*   k = "inf":  +infinity (d = 1) or -infinity (d = -1)                   *)
(*   k = "nan":  not-a-number                                              *)
(* The u component carries the rounding error of the single-precision      *)
(* constants 1/60 and 1/3600 that convertDMS multiplies by:                *)
(*     (float)1/(float)60   = 8947849 / 2^29 = 1/60   + 1680 * Kappa       *)
(*     (float)1/(float)3600 = 2386093 / 2^33 = 1/3600 +   13 * Kappa       *)
(* For the tag values drawn below (denominators 0 or 1, minute and second  *)
(* numerators far below 2^17) every product and sum convertDMS forms is    *)
(* exactly representable in a double, so the record is the exact result.   *)
(***************************************************************************)
EXTENDS Integers, Sequences, FiniteSets, TLC

VARIABLES
    tFile,      \* function-level harness: the image file handed to getEXIFCoord
    tRect,      \* function-level harness: the rectangle handed to fileInBounds
    tCoord,     \* function-level harness: what getEXIFCoord returned
    tInB,       \* function-level harness: what fileInBounds returned
    tPhase,     \* function-level harness: "input", "extracted", "tested"
    argv,       \* argv[1..argc-1] of the invocation (argv[0] is left out)
    pc,         \* "main", "boundDir", "loop", "exit0", "exit1", "crashed"
    exitCode,   \* the process exit status; -1 while running or after a fault
    diag,       \* the message err printed; "" when none
    run,        \* 1 for the first invocation, 2 for the repeated one
    srcPath,    \* main's srcPath
    destPath,   \* main's destPath
    rect,       \* latTL, lonTL, latBR, lonBR as main parsed them
    src,        \* boundDir's DIR* src: "none", "null", "open", "closed"
    nullUse,    \* readdir or closedir was called with a NULL DIR*
    dir,        \* the entries of the source directory, in enumeration order
    srcReadable,    \* opendir on the source directory succeeds
    destWritable,   \* cp can create files in the destination directory
    idx,        \* number of entries readdir has returned in this run
    log,        \* per entry readdir returned in this run: what boundDir did
    dest,       \* the files present in the destination directory
    dest1       \* the destination directory's files when the first run ended

tvars == <<tFile, tRect, tCoord, tInB, tPhase>>

pvars == <<argv, pc, exitCode, diag, run, srcPath, destPath, rect, src, nullUse,
           dir, srcReadable, destWritable, idx, log, dest, dest1>>

vars == <<tvars, pvars>>

----------------------------------------------------------------------------
(* Bounds of the model *)

\* degree numerators 0..MaxDeg are drawn for GPS tags, rectangle corners in 0..MaxDeg
MaxDeg == 2

\* the source directory holds at most MaxEntries entries
MaxEntries == 2

----------------------------------------------------------------------------
(* IEEE-754 values *)

Abs(n) == IF n < 0 THEN -n ELSE n

Sgn(n) == IF n > 0 THEN 1 ELSE IF n < 0 THEN -1 ELSE 0

\* a float has a 24-bit significand
FloatMantissaLimit == 16777216

Fin(d, s, u) == [k |-> "fin", d |-> d, s |-> s, u |-> u]

NaN == [k |-> "nan", d |-> 0, s |-> 0, u |-> 0]

Inf(sign) == [k |-> "inf", d |-> sign, s |-> 0, u |-> 0]

Deg(d) == Fin(d, 0, 0)

\* the spacing of the floats around the magnitude m: 1 below 2^24, then doubling
RECURSIVE FloatStep(_, _)
FloatStep(m, step) ==
    IF m \div step < FloatMantissaLimit THEN step ELSE FloatStep(m, 2 * step)

\* (float) n for an int n: round to nearest float, ties to even
IntToFloat(n) ==
    LET m   == Abs(n)
        st  == FloatStep(m, 1)
        q   == m \div st
        r   == m - q * st
        up  == IF 2 * r > st THEN TRUE
               ELSE IF 2 * r < st THEN FALSE
               ELSE q % 2 = 1
        mag == IF up THEN (q + 1) * st ELSE q * st
    IN  Sgn(n) * mag

\* (float) a / (float) b; x and y are the already converted operands.
\* A zero divisor gives an infinity or a NaN; the model draws no other
\* divisor than 1 (the quotient x is then exact).
FloatDiv(x, y) ==
    IF y = 0
    THEN IF x = 0 THEN NaN ELSE Inf(Sgn(x))
    ELSE Deg(x \div y)

\* sign of the finite value x - y; 0 when equal.  |u| stays far below
\* 2^29 = 1 / (3600 * Kappa), so the comparison is lexicographic.
FinCmp(x, y) ==
    LET dd == x.d - y.d
        ds == x.s - y.s
    IN  IF dd > 100000 THEN 1
        ELSE IF dd < -100000 THEN -1
        ELSE IF dd * 3600 + ds # 0 THEN Sgn(dd * 3600 + ds)
        ELSE Sgn(x.u - y.u)

\* x <= y on doubles: false whenever an operand is a NaN
DblLe(x, y) ==
    IF x.k = "nan" \/ y.k = "nan" THEN FALSE
    ELSE IF x.k = "inf" THEN (x.d = -1 \/ (y.k = "inf" /\ y.d = 1))
    ELSE IF y.k = "inf" THEN y.d = 1
    ELSE FinCmp(x, y) <= 0

\* x >= y on doubles
DblGe(x, y) == DblLe(y, x)

\* x < y on doubles
DblLt(x, y) ==
    IF x.k = "nan" \/ y.k = "nan" THEN FALSE ELSE ~DblLe(y, x)

\* x > y on doubles
DblGt(x, y) == DblLt(y, x)

\* x + y on doubles
DblAdd(x, y) ==
    IF x.k = "nan" \/ y.k = "nan" THEN NaN
    ELSE IF x.k = "inf" /\ y.k = "inf" THEN (IF x.d = y.d THEN x ELSE NaN)
    ELSE IF x.k = "inf" THEN x
    ELSE IF y.k = "inf" THEN y
    ELSE Fin(x.d + y.d, x.s + y.s, x.u + y.u)

\* x * 1.0 or x * -1.0
DblSign(x, sign) ==
    IF x.k = "nan" THEN NaN
    ELSE IF x.k = "inf" THEN Inf(x.d * sign)
    ELSE Fin(x.d * sign, x.s * sign, x.u * sign)

\* the error of (float)1/(float)60 against 1/60, in units of Kappa
MinutesErr == 1680

\* the error of (float)1/(float)3600 against 1/3600, in units of Kappa
SecondsErr == 13

\* q * minutes, q a float quotient holding a whole number
TimesMinutes(q) ==
    IF q.k # "fin" THEN q ELSE Fin(0, 60 * q.d, MinutesErr * q.d)

\* q * seconds
TimesSeconds(q) ==
    IF q.k # "fin" THEN q ELSE Fin(0, q.d, SecondsErr * q.d)

----------------------------------------------------------------------------
(* convertDMS *)

convertDMS(DMSArray, direction) ==
    LET deg0 == FloatDiv(IntToFloat(DMSArray[1]), IntToFloat(DMSArray[2]))
        deg1 == DblAdd(deg0,
                   TimesMinutes(FloatDiv(IntToFloat(DMSArray[3]), IntToFloat(DMSArray[4]))))
        deg2 == DblAdd(deg1,
                   TimesSeconds(FloatDiv(IntToFloat(DMSArray[5]), IntToFloat(DMSArray[6]))))
    IN  DblSign(deg2, IF direction = "N" \/ direction = "E" THEN 1 ELSE -1)

----------------------------------------------------------------------------
(* The tag decoder's results (exif.h): createIfdTableArray and getTagInfo *)

\* getTagInfo found no such tag: a NULL TagNodeInfo pointer
NoTag == [present |-> FALSE, error |-> FALSE,
          numData |-> <<0, 1, 0, 1, 0, 1>>, byteData |-> "N"]

\* a TagNodeInfo whose error field is set
BadTag == [present |-> TRUE, error |-> TRUE,
           numData |-> <<0, 1, 0, 1, 0, 1>>, byteData |-> "N"]

\* a TagNodeInfo read without error
GoodTag(num, byte) == [present |-> TRUE, error |-> FALSE,
                       numData |-> num, byteData |-> byte]

\* createIfdTableArray returned NULL: unreadable file, no EXIF segment
NoExif == [table |-> FALSE, lat |-> NoTag, lon |-> NoTag,
           latDir |-> NoTag, lonDir |-> NoTag]

\* the six ints of a GPSLatitude / GPSLongitude tag the model draws
DMSValues ==
    {<<d, 1, 0, 1, 0, 1>> : d \in 0..MaxDeg}
    \cup {<<0, 1, 30, 1, 0, 1>>, <<0, 1, 0, 1, 1, 1>>,
          <<91, 1, 0, 1, 0, 1>>, <<181, 1, 0, 1, 0, 1>>,
          <<16777217, 1, 0, 1, 0, 1>>,
          <<0, 0, 0, 1, 0, 1>>, <<1, 0, 0, 1, 0, 1>>}

\* first byte of a GPSLatitudeRef / GPSLongitudeRef tag; "X" is a malformed byte
LatRefBytes == {"N", "S", "X"}

LonRefBytes == {"E", "W", "X"}

NumTags == {NoTag, BadTag} \cup {GoodTag(n, "N") : n \in DMSValues}

LatRefTags == {NoTag, BadTag} \cup {GoodTag(<<0, 1, 0, 1, 0, 1>>, b) : b \in LatRefBytes}

LonRefTags == {NoTag, BadTag} \cup {GoodTag(<<0, 1, 0, 1, 0, 1>>, b) : b \in LonRefBytes}

\* every image file: no IFD table, or a table with each of the four GPS
\* tags absent, erroneous or present
ImageFiles ==
    {NoExif} \cup
    [table : {TRUE}, lat : NumTags, lon : NumTags,
     latDir : LatRefTags, lonDir : LonRefTags]

----------------------------------------------------------------------------
(* getEXIFCoord *)

\* EXIFCoord coord = {0, 0, true}; calls lists the convertDMS invocations made
DefaultCoord == [lat |-> Deg(0), lon |-> Deg(0), error |-> TRUE, calls |-> <<>>]

\* a variant that forgets the error field of the longitude reference tag
getEXIFCoord_NoLonDirError(file) ==
    IF ~file.table THEN DefaultCoord
    ELSE IF ~file.lat.present \/ file.lat.error THEN DefaultCoord
    ELSE IF ~file.lon.present \/ file.lon.error THEN DefaultCoord
    ELSE IF ~file.latDir.present \/ file.latDir.error THEN DefaultCoord
    ELSE IF ~file.lonDir.present THEN DefaultCoord
    ELSE [lat   |-> convertDMS(file.lat.numData, file.latDir.byteData),
          lon   |-> convertDMS(file.lon.numData, file.lonDir.byteData),
          error |-> FALSE,
          calls |-> << <<file.lat.numData, file.latDir.byteData>>,
                       <<file.lon.numData, file.lonDir.byteData>> >>]

getEXIFCoord(file) ==
    IF ~file.table THEN DefaultCoord
    ELSE IF ~file.lat.present \/ file.lat.error THEN DefaultCoord
    ELSE IF ~file.lon.present \/ file.lon.error THEN DefaultCoord
    ELSE IF ~file.latDir.present \/ file.latDir.error THEN DefaultCoord
    ELSE IF ~file.lonDir.present \/ file.lonDir.error THEN DefaultCoord
    ELSE [lat   |-> convertDMS(file.lat.numData, file.latDir.byteData),
          lon   |-> convertDMS(file.lon.numData, file.lonDir.byteData),
          error |-> FALSE,
          calls |-> << <<file.lat.numData, file.latDir.byteData>>,
                       <<file.lon.numData, file.lonDir.byteData>> >>]

----------------------------------------------------------------------------
(* fileInBounds *)

\* a variant whose test of the top edge is strict
fileInBounds_StrictTop(file, latTL, lonTL, latBR, lonBR) ==
    LET imageGPS == getEXIFCoord(file)
    IN  IF imageGPS.error THEN FALSE
        ELSE DblLt(imageGPS.lat, latTL) /\ DblGe(imageGPS.lon, lonTL)
             /\ DblGe(imageGPS.lat, latBR) /\ DblLe(imageGPS.lon, lonBR)

fileInBounds(file, latTL, lonTL, latBR, lonBR) ==
    LET imageGPS == getEXIFCoord(file)
    IN  IF imageGPS.error THEN FALSE
        ELSE IF DblLe(imageGPS.lat, latTL) /\ DblGe(imageGPS.lon, lonTL)
                /\ DblGe(imageGPS.lat, latBR) /\ DblLe(imageGPS.lon, lonBR)
             THEN TRUE
             ELSE FALSE

----------------------------------------------------------------------------
(* The environment of a run: command line, file system, directory contents *)

\* paths are sequences of characters, so that strlen, strcpy and strcat are
\* Len and \o.  "s" and "d" are directories, "f" is a regular file.
SrcArgs == {<<"s">>, <<"s", "/">>, <<"f">>, <<>>}

DestArgs == {<<"d">>, <<"d", "/">>, <<"f">>}

\* stat(path, &st) == 0 && S_ISDIR(st.st_mode)
StatIsDir(path) == path \in {<<"s">>, <<"s", "/">>, <<"d">>, <<"d", "/">>}

\* the coordinate arguments drawn: decimal numbers, a NaN, an overflowing
\* number, the empty string and a word
NumArgs == {"0", "1", "91", "181", "nan", "1e999", "", "x"}

\* strtod(arg, &remain): the value, strlen(remain), and whether errno became ERANGE
strtod(arg) ==
    CASE arg = "0"     -> [val |-> Deg(0),   remain |-> 0, erange |-> FALSE]
      [] arg = "1"     -> [val |-> Deg(1),   remain |-> 0, erange |-> FALSE]
      [] arg = "91"    -> [val |-> Deg(91),  remain |-> 0, erange |-> FALSE]
      [] arg = "181"   -> [val |-> Deg(181), remain |-> 0, erange |-> FALSE]
      [] arg = "nan"   -> [val |-> NaN,      remain |-> 0, erange |-> FALSE]
      [] arg = "1e999" -> [val |-> Inf(1),   remain |-> 0, erange |-> TRUE]
      [] arg = ""      -> [val |-> Deg(0),   remain |-> 0, erange |-> FALSE]
      [] OTHER         -> [val |-> Deg(0),   remain |-> 1, erange |-> FALSE]

\* every command line of up to six arguments
Argvs ==
    {<<>>}
    \cup {<<s>> : s \in SrcArgs}
    \cup {<<s, d>> : s \in SrcArgs, d \in DestArgs}
    \cup {<<s, d, a>> : s \in SrcArgs, d \in DestArgs, a \in NumArgs}
    \cup {<<s, d, a, b>> : s \in SrcArgs, d \in DestArgs, a \in NumArgs, b \in NumArgs}
    \cup {<<s, d, a, b, c>> : s \in SrcArgs, d \in DestArgs,
                              a \in NumArgs, b \in NumArgs, c \in NumArgs}
    \cup {<<s, d, a, b, c, e>> : s \in SrcArgs, d \in DestArgs,
                                 a \in NumArgs, b \in NumArgs, c \in NumArgs, e \in NumArgs}

\* d_name of the i-th entry readdir returns: i characters, so names differ
NameOf(i) == [k \in 1..i |-> "n"]

\* the directory entries drawn: a subdirectory, a regular file without EXIF,
\* a regular file at (1 N, 1 E) and a regular file at (2 N, 1 E)
DirEntries ==
    {[kind |-> "DT_DIR", file |-> NoExif],
     [kind |-> "DT_REG", file |-> NoExif],
     [kind |-> "DT_REG",
      file |-> [table |-> TRUE,
                lat |-> GoodTag(<<1, 1, 0, 1, 0, 1>>, "N"),
                lon |-> GoodTag(<<1, 1, 0, 1, 0, 1>>, "N"),
                latDir |-> GoodTag(<<0, 1, 0, 1, 0, 1>>, "N"),
                lonDir |-> GoodTag(<<0, 1, 0, 1, 0, 1>>, "E")]],
     [kind |-> "DT_REG",
      file |-> [table |-> TRUE,
                lat |-> GoodTag(<<2, 1, 0, 1, 0, 1>>, "N"),
                lon |-> GoodTag(<<1, 1, 0, 1, 0, 1>>, "N"),
                latDir |-> GoodTag(<<0, 1, 0, 1, 0, 1>>, "N"),
                lonDir |-> GoodTag(<<0, 1, 0, 1, 0, 1>>, "E")]]}

Directories == UNION {[1..n -> DirEntries] : n \in 0..MaxEntries}

NoRect == [latTL |-> Deg(0), lonTL |-> Deg(0), latBR |-> Deg(0), lonBR |-> Deg(0)]

----------------------------------------------------------------------------
(* copyFile *)

\* sprintf(command, "cp \"%s\" \"%s\"", src, dest)
CpCommand(from, to) ==
    <<"c", "p", " ", "\"">> \o from \o <<"\"", " ", "\"">> \o to \o <<"\"">>

\* a buffer of `size` chars into which a string of `strlen` chars and its
\* terminating NUL are written
Buffer(name, size, strlen) == [buf |-> name, size |-> size, written |-> strlen + 1]

\* char command[strlen(src) + strlen(dest) + 9]
copyFileBuffer(from, to) ==
    Buffer("command", Len(from) + Len(to) + 9, Len(CpCommand(from, to)))

\* system(command): cp creates or overwrites `to` when `from` names a file
\* and the destination directory is writable; its status is not looked at
copyFile(from, to, files, writable) ==
    IF from # <<>> /\ writable THEN files \cup {to} ELSE files

----------------------------------------------------------------------------
(* main *)

\* the checks main makes on argv[i], 3 <= i <= 6; "" when it passes them
ParamError(i, arg) ==
    LET p == strtod(arg)
    IN  IF p.remain > 0 \/ p.erange
        THEN "invalid floating point parameter"
        ELSE IF i % 2 = 1 /\ (DblLt(p.val, Deg(-90)) \/ DblGt(p.val, Deg(90)))
        THEN "latitude parameter out of range"
        ELSE IF i % 2 = 0 /\ (DblLt(p.val, Deg(-180)) \/ DblGt(p.val, Deg(180)))
        THEN "longitude parameter out of range"
        ELSE ""

\* the message of the err call main ends in for `args`; "" when main
\* reaches the call of boundDir
MainError(args) ==
    LET argc == Len(args) + 1
    IN  IF argc < 2 THEN "no source path provided"
        ELSE IF ~(StatIsDir(args[1]) /\ args[1][Len(args[1])] # "/")
        THEN "provided source path was invalid"
        ELSE IF argc < 3 THEN "no destination path provided"
        ELSE IF ~(StatIsDir(args[2]) /\ args[2][Len(args[2])] # "/")
        THEN "provided destination path was invalid"
        ELSE IF argc < 7 THEN "some bounding coords are missing"
        ELSE IF \E i \in 3..6 : ParamError(i, args[i]) # ""
        THEN LET first == CHOOSE i \in 3..6 :
                              /\ ParamError(i, args[i]) # ""
                              /\ \A j \in 3..(i - 1) : ParamError(j, args[j]) = ""
             IN  ParamError(first, args[first])
        ELSE IF DblLe(strtod(args[3]).val, strtod(args[5]).val)
                \/ DblGe(strtod(args[4]).val, strtod(args[6]).val)
        THEN "deformed bounding rectangle defined"
        ELSE ""

\* main up to err (exit status 1) or up to the call of boundDir
Main ==
    /\ pc = "main"
    /\ IF MainError(argv) # ""
       THEN /\ diag' = MainError(argv)
            /\ exitCode' = 1
            /\ pc' = "exit1"
            /\ UNCHANGED <<srcPath, destPath, rect>>
       ELSE /\ srcPath' = argv[1]
            /\ destPath' = argv[2]
            /\ rect' = [latTL |-> strtod(argv[3]).val, lonTL |-> strtod(argv[4]).val,
                        latBR |-> strtod(argv[5]).val, lonBR |-> strtod(argv[6]).val]
            /\ pc' = "boundDir"
            /\ UNCHANGED <<diag, exitCode>>
    /\ UNCHANGED <<argv, run, src, nullUse, dir, srcReadable, destWritable,
                   idx, log, dest, dest1>>
    /\ UNCHANGED tvars

----------------------------------------------------------------------------
(* boundDir *)

\* char fileName[strlen(srcPath) + strlen(d_name) + 1], filled by
\* strcpy(srcPath), strcat("/"), strcat(d_name)
fileNameBuffer(path, name) ==
    Buffer("fileName", Len(path) + Len(name) + 1, Len(path \o <<"/">> \o name))

\* char destName[strlen(destPath) + strlen(d_name) + 1], filled the same way
destNameBuffer(path, name) ==
    Buffer("destName", Len(path) + Len(name) + 1, Len(path \o <<"/">> \o name))

\* What a write past the end of a variable-length stack array can do.  The
\* array's storage is rounded up for alignment, so the stray byte may land
\* in padding ("padding": no effect); otherwise it lands in a live object
\* of the frame, after which the process may fault ("fault").
OverflowOutcomes(b) ==
    IF b.written <= b.size THEN {"fits"} ELSE {"padding", "fault"}

\* destName is allocated directly below fileName: the stray NUL of
\* destName may also be fileName[0], which empties the source path
\* handed to copyFile ("clobber").
DestOverflowOutcomes(b) ==
    IF b.written <= b.size THEN {"fits"} ELSE {"padding", "fault", "clobber"}

LogEntry(name, kind, extracted, inB, copies, notes, bufs) ==
    [name |-> name, kind |-> kind, extracted |-> extracted, inB |-> inB,
     copies |-> copies, notes |-> notes, bufs |-> bufs]

\* One iteration of the while loop for the entry `ent` named `name`: what
\* is recorded for the entry, the destination's files afterwards, and
\* whether the process faulted.  o1 and o2 are the outcomes of the writes
\* into fileName and destName.
boundDirBody(ent, name, o1, o2, sPath, dPath, r, files, writable) ==
    LET fileName == sPath \o <<"/">> \o name
        destName == dPath \o <<"/">> \o name
        fnb      == fileNameBuffer(sPath, name)
        dnb      == destNameBuffer(dPath, name)
        from     == IF o2 = "clobber" THEN <<>> ELSE fileName
    IN  IF ent.kind # "DT_REG"
        THEN [entry |-> LogEntry(name, ent.kind, FALSE, FALSE, <<>>, <<>>, <<>>),
              files |-> files, fault |-> FALSE]
        ELSE IF o1 = "fault"
        THEN [entry |-> LogEntry(name, ent.kind, FALSE, FALSE, <<>>, <<>>, <<fnb>>),
              files |-> files, fault |-> TRUE]
        ELSE IF ~fileInBounds(ent.file, r.latTL, r.lonTL, r.latBR, r.lonBR)
        THEN [entry |-> LogEntry(name, ent.kind, TRUE, FALSE, <<>>, <<>>, <<fnb>>),
              files |-> files, fault |-> FALSE]
        ELSE IF o2 = "fault"
        THEN [entry |-> LogEntry(name, ent.kind, TRUE, TRUE, <<>>, <<>>, <<fnb, dnb>>),
              files |-> files, fault |-> TRUE]
        ELSE [entry |-> LogEntry(name, ent.kind, TRUE, TRUE,
                                 << [from |-> from, to |-> destName] >>,
                                 <<name>>,
                                 <<fnb, dnb, copyFileBuffer(from, destName)>>),
              files |-> copyFile(from, destName, files, writable),
              fault |-> FALSE]

\* DIR* src = opendir(srcPath); the result is not examined.  The first run
\* observes the directory and the two permissions; the second run meets
\* the same ones.
OpenDir ==
    /\ pc = "boundDir"
    /\ IF run = 1
       THEN /\ dir' \in Directories
            /\ srcReadable' \in BOOLEAN
            /\ destWritable' \in BOOLEAN
       ELSE UNCHANGED <<dir, srcReadable, destWritable>>
    /\ src' = IF srcReadable' THEN "open" ELSE "null"
    /\ idx' = 0
    /\ pc' = "loop"
    /\ UNCHANGED <<argv, exitCode, diag, run, srcPath, destPath, rect, nullUse,
                   log, dest, dest1>>
    /\ UNCHANGED tvars

\* readdir returns an entry and the loop body runs for it
LoopEntry ==
    /\ pc = "loop"
    /\ src = "open"
    /\ idx < Len(dir)
    /\ \E o1 \in OverflowOutcomes(fileNameBuffer(srcPath, NameOf(idx + 1))),
          o2 \in DestOverflowOutcomes(destNameBuffer(destPath, NameOf(idx + 1))) :
          LET b == boundDirBody(dir[idx + 1], NameOf(idx + 1), o1, o2,
                                srcPath, destPath, rect, dest, destWritable)
          IN  /\ log' = Append(log, b.entry)
              /\ dest' = b.files
              /\ pc' = IF b.fault THEN "crashed" ELSE "loop"
    /\ idx' = idx + 1
    /\ UNCHANGED <<argv, exitCode, diag, run, srcPath, destPath, rect, src, nullUse,
                   dir, srcReadable, destWritable, dest1>>
    /\ UNCHANGED tvars

\* readdir returns NULL; closedir(src); boundDir returns and main returns 0
LoopEnd ==
    /\ pc = "loop"
    /\ src = "open"
    /\ idx = Len(dir)
    /\ src' = "closed"
    /\ exitCode' = 0
    /\ pc' = "exit0"
    /\ UNCHANGED <<argv, diag, run, srcPath, destPath, rect, nullUse,
                   dir, srcReadable, destWritable, idx, log, dest, dest1>>
    /\ UNCHANGED tvars

\* readdir(NULL) after a failed opendir: the C library either dereferences
\* the pointer (the process faults) or rejects it; when rejected, readdir
\* returns NULL, closedir(NULL) is rejected the same way and main returns 0
LoopNull ==
    /\ pc = "loop"
    /\ src = "null"
    /\ nullUse' = TRUE
    /\ \E o \in {"fault", "rejected"} :
          IF o = "fault"
          THEN pc' = "crashed" /\ UNCHANGED exitCode
          ELSE pc' = "exit0" /\ exitCode' = 0
    /\ UNCHANGED <<argv, diag, run, srcPath, destPath, rect, src,
                   dir, srcReadable, destWritable, idx, log, dest, dest1>>
    /\ UNCHANGED tvars

\* the same command line is run a second time
Rerun ==
    /\ run = 1
    /\ pc \in {"exit0", "crashed"}
    /\ run' = 2
    /\ dest1' = dest
    /\ pc' = "main"
    /\ exitCode' = -1
    /\ diag' = ""
    /\ srcPath' = <<>>
    /\ destPath' = <<>>
    /\ rect' = NoRect
    /\ src' = "none"
    /\ nullUse' = FALSE
    /\ idx' = 0
    /\ log' = <<>>
    /\ UNCHANGED <<argv, dir, srcReadable, destWritable, dest>>
    /\ UNCHANGED tvars

----------------------------------------------------------------------------
(* Specification of the program *)

HarnessIdle ==
    /\ tFile = NoExif
    /\ tRect = [latTL |-> 1, lonTL |-> 0, latBR |-> 0, lonBR |-> 1]
    /\ tCoord = DefaultCoord
    /\ tInB = FALSE
    /\ tPhase = "idle"

ProgramIdle ==
    /\ pc = "main"
    /\ exitCode = -1
    /\ diag = ""
    /\ run = 1
    /\ srcPath = <<>>
    /\ destPath = <<>>
    /\ rect = NoRect
    /\ src = "none"
    /\ nullUse = FALSE
    /\ dir = <<>>
    /\ srcReadable = TRUE
    /\ destWritable = TRUE
    /\ idx = 0
    /\ log = <<>>
    /\ dest = {}
    /\ dest1 = {}

Init ==
    /\ argv \in Argvs
    /\ ProgramIdle
    /\ HarnessIdle

Next == Main \/ OpenDir \/ LoopEntry \/ LoopEnd \/ LoopNull \/ Rerun

Spec == Init /\ [][Next]_vars

----------------------------------------------------------------------------
(* Function-level specification: one image file and one rectangle are      *)
(* drawn, getEXIFCoord is applied, then fileInBounds.                      *)

\* the corners main accepts, drawn from whole degrees 0..MaxDeg
TestRects ==
    {r \in [latTL : 0..MaxDeg, lonTL : 0..MaxDeg, latBR : 0..MaxDeg, lonBR : 0..MaxDeg] :
        r.latTL > r.latBR /\ r.lonTL < r.lonBR}

CoordInit ==
    /\ tFile \in ImageFiles
    /\ tRect \in TestRects
    /\ tCoord = DefaultCoord
    /\ tInB = FALSE
    /\ tPhase = "input"
    /\ argv = <<>>
    /\ ProgramIdle

ApplyExtract ==
    /\ tPhase = "input"
    /\ tCoord' = getEXIFCoord(tFile)
    /\ tPhase' = "extracted"
    /\ UNCHANGED <<tFile, tRect, tInB>>
    /\ UNCHANGED pvars

ApplyBounds ==
    /\ tPhase = "extracted"
    /\ tInB' = fileInBounds(tFile, Deg(tRect.latTL), Deg(tRect.lonTL),
                            Deg(tRect.latBR), Deg(tRect.lonBR))
    /\ tPhase' = "tested"
    /\ UNCHANGED <<tFile, tRect, tCoord>>
    /\ UNCHANGED pvars

CoordNext == ApplyExtract \/ ApplyBounds

SpecCoord == CoordInit /\ [][CoordNext]_vars

----------------------------------------------------------------------------
(* Properties *)

\* an argument that is a decimal number
ArgIsNumber(a) == a \in {"0", "1", "91", "181", "1e999"}

\* the number a decimal argument denotes (1e999: beyond every range)
ArgDegrees(a) ==
    CASE a = "0" -> 0 [] a = "1" -> 1 [] a = "91" -> 91 [] a = "181" -> 181
      [] OTHER -> 1000

\* the command line has one of the configuration errors the CLI names
ConfigError(args) ==
    \/ Len(args) < 6
    \/ ~StatIsDir(args[1]) \/ args[1][Len(args[1])] = "/"
    \/ ~StatIsDir(args[2]) \/ args[2][Len(args[2])] = "/"
    \/ \E i \in 3..6 : ~ArgIsNumber(args[i])
    \/ \E i \in {3, 5} : ArgDegrees(args[i]) > 90
    \/ \E i \in {4, 6} : ArgDegrees(args[i]) > 180
    \/ ArgDegrees(args[3]) <= ArgDegrees(args[5])
    \/ ArgDegrees(args[4]) >= ArgDegrees(args[6])

\* the coordinate c lies in the rectangle r, edges included
InRect(c, r) ==
    /\ DblLe(c.lat, r.latTL) /\ DblGe(c.lon, r.lonTL)
    /\ DblGe(c.lat, r.latBR) /\ DblLe(c.lon, r.lonBR)

\* the entry is a regular file with a valid coordinate inside the rectangle
Matches(ent, r) ==
    /\ ent.kind = "DT_REG"
    /\ ~getEXIFCoord(ent.file).error
    /\ InRect(getEXIFCoord(ent.file), r)

\* C1: for every entry readdir returned, one copy from srcPath/name to
\* destPath/name is attempted and one notification naming the entry is
\* printed if and only if the entry is a regular file whose coordinate is
\* valid and inside the rectangle; otherwise there is neither; an entry
\* that is not a regular file is never handed to getEXIFCoord.  (Stated
\* for the runs of command lines free of configuration errors.)
C1_CopyIffMatch ==
    ~ConfigError(argv) => \A i \in 1..Len(log) :
        LET e == log[i]
            copied == /\ e.copies = << [from |-> srcPath \o <<"/">> \o e.name,
                                        to   |-> destPath \o <<"/">> \o e.name] >>
                      /\ e.notes = <<e.name>>
        IN  /\ Matches(dir[i], rect) <=> copied
            /\ ~Matches(dir[i], rect) => (e.copies = <<>> /\ e.notes = <<>>)
            /\ dir[i].kind # "DT_REG" => ~e.extracted

\* C2: an invocation with a configuration error ends with exit status 1
\* before the driver starts: the directory is never opened, no entry is
\* processed, nothing is copied.
C2_ConfigErrorExits1 ==
    ConfigError(argv) =>
        /\ pc \in {"main", "exit1"}
        /\ pc = "exit1" => exitCode = 1
        /\ src = "none" /\ log = <<>> /\ dest = {}

\* the decoder produced a table and each of the four lookups is present
\* and reports no error
AllFourRead(f) ==
    /\ f.table
    /\ \A tag \in {f.lat, f.lon, f.latDir, f.lonDir} : tag.present /\ ~tag.error

\* C3: getEXIFCoord returns a valid coordinate if and only if the decoder
\* produced an IFD table and each of the four lookups is present and free
\* of error; an invalid result comes without any call of convertDMS, a
\* valid one with exactly two.
C3_ValidIffAllFourRead ==
    tPhase \in {"extracted", "tested"} =>
        /\ ~tCoord.error <=> AllFourRead(tFile)
        /\ tCoord.error => tCoord.calls = <<>>
        /\ ~tCoord.error => Len(tCoord.calls) = 2

\* C3 witness: three lookups are read, the longitude reference reports a
\* read error, and the extraction is invalid
C3_Witness ==
    /\ tPhase = "extracted"
    /\ tFile.table
    /\ \A tag \in {tFile.lat, tFile.lon, tFile.latDir} : tag.present /\ ~tag.error
    /\ tFile.lonDir = BadTag
    /\ tCoord.error

\* C4: fileInBounds is false for every invalid coordinate; for a valid one
\* it is true exactly when lat <= latTL, lon >= lonTL, lat >= latBR and
\* lon <= lonBR; a whole-degree point on an edge of the rectangle (and
\* within the other two edges) is included, a point one degree outside an
\* edge is excluded.
C4_InclusiveBounds ==
    tPhase = "tested" =>
        LET r == [latTL |-> Deg(tRect.latTL), lonTL |-> Deg(tRect.lonTL),
                  latBR |-> Deg(tRect.latBR), lonBR |-> Deg(tRect.lonBR)]
            whole == /\ tCoord.lat.k = "fin" /\ tCoord.lat.s = 0 /\ tCoord.lat.u = 0
                     /\ tCoord.lon.k = "fin" /\ tCoord.lon.s = 0 /\ tCoord.lon.u = 0
            la == tCoord.lat.d
            lo == tCoord.lon.d
        IN  /\ tCoord.error => ~tInB
            /\ ~tCoord.error => (tInB <=> InRect(tCoord, r))
            /\ (~tCoord.error /\ whole) =>
                 /\ (la \in {tRect.latTL, tRect.latBR}
                     /\ tRect.lonTL <= lo /\ lo <= tRect.lonBR) => tInB
                 /\ (lo \in {tRect.lonTL, tRect.lonBR}
                     /\ tRect.latBR <= la /\ la <= tRect.latTL) => tInB
                 /\ (la = tRect.latTL + 1 \/ la = tRect.latBR - 1
                     \/ lo = tRect.lonTL - 1 \/ lo = tRect.lonBR + 1) => ~tInB

\* C4 witness: a valid coordinate exactly on the top edge was tested and
\* found in bounds
C4_Witness ==
    /\ tPhase = "tested"
    /\ ~tCoord.error
    /\ tCoord.lat = Deg(tRect.latTL)
    /\ tInB

\* C5: every coordinate getEXIFCoord returns as valid has its latitude in
\* [-90, 90] and its longitude in [-180, 180].
C5_ValidCoordInRange ==
    (tPhase \in {"extracted", "tested"} /\ ~tCoord.error) =>
        /\ DblLe(Deg(-90), tCoord.lat) /\ DblLe(tCoord.lat, Deg(90))
        /\ DblLe(Deg(-180), tCoord.lon) /\ DblLe(tCoord.lon, Deg(180))

\* the value n0/d0 + (n1/d1)/60 + (n2/d2)/3600 counted exactly, for
\* denominators equal to 1, with the sign the direction byte asks for
ExactDMS(DMSArray, direction) ==
    LET sign == IF direction \in {"N", "E"} THEN 1 ELSE -1
    IN  Fin(sign * DMSArray[1], sign * (60 * DMSArray[3] + DMSArray[5]), 0)

\* C6: convertDMS of [d,1,0,1,0,1] is d for 'N' and 'E' and -d for any other
\* direction byte; in general the result has the magnitude
\* n0/d0 + (n1/d1)/60 + (n2/d2)/3600, negated unless the byte is 'N' or 'E'.
C6_ConvertExact ==
    (tPhase \in {"extracted", "tested"} /\ ~tCoord.error) =>
        \A i \in 1..2 :
            LET dms    == tCoord.calls[i][1]
                byte   == tCoord.calls[i][2]
                result == IF i = 1 THEN tCoord.lat ELSE tCoord.lon
            IN  (dms[2] = 1 /\ dms[4] = 1 /\ dms[6] = 1) =>
                    /\ result.k = "fin"
                    /\ FinCmp(result, ExactDMS(dms, byte)) = 0

\* C7: after the second run of the same command line the destination
\* holds the same files as after the first run.
C7_SecondRunSameFiles ==
    (~ConfigError(argv) /\ run = 2 /\ pc \in {"exit0", "exit1", "crashed"})
        => dest = dest1

\* C8: once main has accepted the command line no entry stops the run:
\* the process does not fault, and it ends with exit status 0 having
\* processed every entry of the directory it opened.
C8_RunCompletes ==
    (~ConfigError(argv) /\ MainError(argv) = "") =>
        /\ pc # "crashed"
        /\ pc = "exit0" => (exitCode = 0 /\ (src = "closed" => Len(log) = Len(dir)))

\* C9: readdir and closedir are never called with a DIR* that opendir did
\* not deliver, and when boundDir has returned the handle is closed.
C9_HandleReleased ==
    ~ConfigError(argv) =>
        /\ ~nullUse
        /\ pc = "exit0" => src = "closed"

\* C10: every string written into fileName, destName or command fits in
\* the array together with its terminating NUL.
C10_BuffersFit ==
    ~ConfigError(argv) => \A i \in 1..Len(log) :
        \A j \in 1..Len(log[i].bufs) :
            log[i].bufs[j].written <= log[i].bufs[j].size

====
